---- MODULE Spec2Model ----
(***************************************************************************)
(* Model of Course-Project/oil_gas_dashboard.py: the module-level data     *)
(* preparation (lines 10-35) and the two Dash callbacks update_controls    *)
(* (lines 87-116) and update_plot (lines 120-196).                         *)
(*                                                                         *)
(* Tables (pandas DataFrames) are sequences of records.  A missing string  *)
(* cell is NA, a missing numeric cell is NaN.  Prices are exact rationals  *)
(* [num, den] (floating-point rounding is not modelled); the missing price *)
(* is NaNPrice.  Python's None is None; an unset year range is NoYears.    *)
(*                                                                         *)
(* The Dash framework is not part of the repository.  The model takes from *)
(* it only what the declarations in the source say: a change of an Input   *)
(* runs the callbacks declared on it with the current input values, a      *)
(* returned value replaces the children of the Output, the components a    *)
(* returned tree holds start with the value= the source gives them, and a  *)
(* callback that raises leaves its Output as it was.                       *)
(***************************************************************************)
EXTENDS Integers, Sequences, FiniteSets, TLC

VARIABLES
    co2_src,          \* owid-co2-data.csv as read (line 10), the four columns used
    oil_src,          \* Europe_Brent_Spot_Price_FOB.csv as read (line 11)
    df_oil,           \* line 15-23
    df_co2,           \* line 25-27
    df,               \* line 30-35
    pc,               \* position in the module-level code
    selected_plot,    \* plot-selector.value
    country,          \* country-selector.value
    years,            \* year-slider.value
    control_section,  \* control-section.children
    plot_section,     \* plot-section.children
    controls_outcome, \* how the latest update_controls call ended
    plot_outcome      \* how the latest update_plot call ended

vars == <<co2_src, oil_src, df_oil, df_co2, df, pc, selected_plot, country, years,
          control_section, plot_section, controls_outcome, plot_outcome>>

uiVars == <<selected_plot, country, years, control_section, plot_section,
            controls_outcome, plot_outcome>>

----------------------------------------------------------------------------
(* Bounds and input domains *)

MaxCo2Rows == 2
MaxOilRows == 3

NA == "<NA>"
NaN == -1
NaNPrice == [num |-> 0, den |-> 0]
None == "None"
NoYears == <<>>

Countries == {"Norway", "Sweden"}
EmissionYears == {1986, 1987, 1988}
Co2Values == {30}
MethaneValues == {5}
DateCells == {"1987-05-20", "1988-01-04", "n/a"}
PriceCells == {10, 15}

BSeq(S, n) == UNION {[1..k -> S] : k \in 0..n}

Co2Rows == [country : Countries \cup {NA}, year : EmissionYears \cup {NaN},
            co2 : Co2Values \cup {NaN}, methane : MethaneValues \cup {NaN}]

OilRows == [date : DateCells, brent_price_usd : PriceCells \cup {NaN}]

E(c, y, co2, m) == [country |-> c, year |-> y, co2 |-> co2, methane |-> m]
O(d, p) == [date |-> d, brent_price_usd |-> p]

Co2Fixtures ==
    { <<E("Norway", 1987, 30, 5), E("Norway", 1988, 30, 5)>>,
      <<E("Norway", 1986, 30, 5), E("Norway", 1987, 30, NaN), E("Sweden", 1987, 30, 5),
        E("Norway", 1988, 30, 5), E("Sweden", 1988, NaN, 5)>>,
      <<E("Sweden", 1988, 30, 5)>> }

OilFixtures ==
    { <<O("1987-05-20", 10), O("1987-05-20", 15), O("1988-01-04", 15)>>,
      <<O("n/a", 10), O("1988-01-04", 10), O("1988-01-04", NaN)>>,
      <<>> }

----------------------------------------------------------------------------
(* pandas helpers *)

\* a missing cell: NaN in a numeric column, NA in a string column
isna(x) == x = NaN
isna_str(x) == x = NA

ge(x, y) == x # NaN /\ y # NaN /\ x >= y
le(x, y) == x # NaN /\ y # NaN /\ x <= y

NaT == [year |-> NaN, month |-> NaN, day |-> NaN]

to_datetime(s) ==
    CASE s = "1987-05-20" -> [year |-> 1987, month |-> 5, day |-> 20]
      [] s = "1988-01-04" -> [year |-> 1988, month |-> 1, day |-> 4]
      [] OTHER -> NaT

dt_year(d) == d.year

RECURSIVE GCD(_, _)
GCD(a, b) == IF b = 0 THEN a ELSE GCD(b, a % b)

RECURSIVE SumPrices(_)
SumPrices(rows) ==
    IF rows = <<>> THEN 0
    ELSE Head(rows).brent_price_usd + SumPrices(Tail(rows))

MeanSum(rows) ==
    [num |-> SumPrices(rows), den |-> 1]

mean(rows) ==
    LET s == SumPrices(rows)
        n == Len(rows)
        g == GCD(s, n)
    IN  [num |-> s \div g, den |-> n \div g]

RECURSIVE SortedYears(_)
SortedYears(S) ==
    IF S = {} THEN <<>>
    ELSE LET m == CHOOSE x \in S : \A y \in S : x <= y
         IN  <<m>> \o SortedYears(S \ {m})

----------------------------------------------------------------------------
(* Data preparation, lines 15-35 *)

\* line 17: df_oil['date'] = pd.to_datetime(df_oil['date'], errors='coerce')
parse_dates(t) ==
    [i \in DOMAIN t |-> [date |-> to_datetime(t[i].date),
                         brent_price_usd |-> t[i].brent_price_usd]]

\* line 18: df_oil['year'] = df_oil['date'].dt.year
add_year(t) ==
    [i \in DOMAIN t |-> [date |-> t[i].date,
                         brent_price_usd |-> t[i].brent_price_usd,
                         year |-> dt_year(t[i].date)]]

OilRowComplete(r) == ~isna(r.year) /\ ~isna(r.brent_price_usd)

\* line 20: df_oil.dropna(subset=['year', 'brent_price_usd'])
dropna_oil(t) == SelectSeq(t, OilRowComplete)

\* line 22: df_oil.groupby('year', as_index=False)['brent_price_usd'].mean()
\* one row per distinct year, in ascending order of year
groupby_year_mean(t) ==
    LET ys == SortedYears({t[i].year : i \in DOMAIN t})
        group(y) == SelectSeq(t, LAMBDA r : r.year = y)
    IN  [k \in DOMAIN ys |-> [year |-> ys[k], brent_price_usd |-> mean(group(ys[k]))]]

\* line 23: df_oil['country'] = 'World'
tag_world(t) ==
    [i \in DOMAIN t |-> [year |-> t[i].year,
                         brent_price_usd |-> t[i].brent_price_usd,
                         country |-> "World"]]

\* line 25: df_co2[['country', 'year', 'co2', 'methane']]
select_columns(t) ==
    [i \in DOMAIN t |-> [country |-> t[i].country, year |-> t[i].year,
                         co2 |-> t[i].co2, methane |-> t[i].methane]]

Co2RowCompleteWithoutCo2(r) == ~isna_str(r.country) /\ ~isna(r.year)

Co2RowComplete(r) == ~isna_str(r.country) /\ ~isna(r.year) /\ ~isna(r.co2)

\* line 27: df_co2.dropna(subset=['country', 'year', 'co2'])
dropna_co2(t) == SelectSeq(t, Co2RowComplete)

Joined(l, price, rcountry) ==
    [country_x |-> l.country, year |-> l.year, co2 |-> l.co2, methane |-> l.methane,
     brent_price_usd |-> price, country_y |-> rcountry]

RECURSIVE merge_inner(_, _)
merge_inner(left, right) ==
    IF left = <<>> THEN <<>>
    ELSE LET l == Head(left)
             matches == SelectSeq(right, LAMBDA r : r.year = l.year)
         IN  [k \in DOMAIN matches |->
                  Joined(l, matches[k].brent_price_usd, matches[k].country)]
             \o merge_inner(Tail(left), right)

\* line 30: pd.merge(df_co2, df_oil, on='year', how='left')
\* every left row in order, once per right row of the same year, and once with
\* missing right-hand columns when there is none
RECURSIVE merge_left(_, _)
merge_left(left, right) ==
    IF left = <<>> THEN <<>>
    ELSE LET l == Head(left)
             matches == SelectSeq(right, LAMBDA r : r.year = l.year)
             rows == IF matches = <<>> THEN <<Joined(l, NaNPrice, NA)>>
                     ELSE [k \in DOMAIN matches |->
                              Joined(l, matches[k].brent_price_usd, matches[k].country)]
         IN  rows \o merge_left(Tail(left), right)

RenameDropWrongSide(t) ==
    [i \in DOMAIN t |-> [country |-> t[i].country_y, year |-> t[i].year,
                         co2 |-> t[i].co2, methane |-> t[i].methane,
                         brent_price_usd |-> t[i].brent_price_usd]]

\* line 32-33: rename country_x to country, drop country_y
rename_drop(t) ==
    [i \in DOMAIN t |-> [country |-> t[i].country_x, year |-> t[i].year,
                         co2 |-> t[i].co2, methane |-> t[i].methane,
                         brent_price_usd |-> t[i].brent_price_usd]]

StartYear == 1987

YearAfterStart(r) == r.year # NaN /\ r.year > StartYear

\* line 35: the row mask df['year'] >= 1987
YearFromStart(r) == ge(r.year, StartYear)

year_filter(t) == SelectSeq(t, YearFromStart)

PreprocessOil ==
    /\ pc = "start"
    /\ df_oil' = tag_world(groupby_year_mean(dropna_oil(add_year(parse_dates(oil_src)))))
    /\ pc' = "oil_done"
    /\ UNCHANGED <<co2_src, oil_src, df_co2, df, uiVars>>

CleanEmissions ==
    /\ pc = "oil_done"
    /\ df_co2' = dropna_co2(select_columns(co2_src))
    /\ pc' = "co2_done"
    /\ UNCHANGED <<co2_src, oil_src, df_oil, df, uiVars>>

MergeDatasets ==
    /\ pc = "co2_done"
    /\ df' = rename_drop(merge_left(df_co2, df_oil))
    /\ pc' = "merged"
    /\ UNCHANGED <<co2_src, oil_src, df_oil, df_co2, uiVars>>

FilterYears ==
    /\ pc = "merged"
    /\ df' = year_filter(df)
    /\ pc' = "serve"
    /\ UNCHANGED <<co2_src, oil_src, df_oil, df_co2, uiVars>>

----------------------------------------------------------------------------
(* The page, lines 39-83 *)

\* line 39-54: the values of plot_options
PlotValues == {"time", "corr", "methane_corr", "top10", "predict"}

Falsy(x) == x \in {None, ""}

\* what a callback call comes to
Return(v) == [kind |-> "return", value |-> v]
Raise(e) == [kind |-> "raise", exc |-> e]
NotCalled == [kind |-> "not called"]

\* component trees
NoChildren == [kind |-> "none"]
Text(s) == [kind |-> "text", text |-> s]
P(s) == [kind |-> "P", text |-> s]
Graph(fig) == [kind |-> "Graph", figure |-> fig]
Unbound == [kind |-> "unbound"]

YearRanges == {<<lo, hi>> : lo \in EmissionYears, hi \in EmissionYears} \ 
              {<<lo, hi>> \in EmissionYears \X EmissionYears : lo > hi}

MaxOf(S) == IF S = {} THEN NaN
            ELSE CHOOSE x \in S : \A y \in S : y <= x

MinOf(S) == IF S = {} THEN NaN
            ELSE CHOOSE x \in S : \A y \in S : x <= y

\* line 91-116
update_controls(sp) ==
    IF sp = None THEN Return(Text(""))
    ELSE LET html_output ==
                 IF sp = "time" \/ sp = "corr" \/ sp = "methane_corr"
                 THEN [kind |-> "Div",
                       country_options |-> {df[i].country : i \in DOMAIN df},
                       country_value |-> "Norway",
                       year_min |-> MinOf({df[i].year : i \in DOMAIN df}),
                       year_max |-> MaxOf({df[i].year : i \in DOMAIN df}),
                       year_value |-> <<1987, MaxOf({df[i].year : i \in DOMAIN df})>>]
                 ELSE Unbound
         IN  IF html_output = Unbound THEN Raise("UnboundLocalError")
             ELSE Return(html_output)

BetweenExclusive(x, left, right) == ge(x, left) /\ x # left /\ le(x, right) /\ x # right

\* Series.between(left, right), both ends inclusive
between(x, left, right) == ge(x, left) /\ le(x, right)

\* line 135, 152, 171: df[(df['country'] == country) & (df['year'].between(years[0], years[1]))]
filter_rows(t, c, ys) ==
    SelectSeq(t, LAMBDA r : r.country = c /\ between(r.year, ys[1], ys[2]))

\* line 127-196
update_plot(sp, c, ys) ==
    IF Falsy(sp) THEN Return(Text(""))
    ELSE IF Falsy(c) \/ ys = NoYears THEN Return(P("Select a country and year range."))
    ELSE LET fig1 == IF sp = "time"
                     THEN [px |-> "line", x |-> "year", y |-> <<"co2", "brent_price_usd">>,
                           color |-> "none", trendline |-> "none", title |-> c,
                           data |-> filter_rows(df, c, ys)]
                     ELSE Unbound
             fig2 == IF sp = "corr"
                     THEN [px |-> "scatter", x |-> "brent_price_usd", y |-> <<"co2">>,
                           color |-> "none", trendline |-> "ols", title |-> c,
                           data |-> filter_rows(df, c, ys)]
                     ELSE fig1
             fig == IF sp = "methane_corr"
                    THEN [px |-> "scatter", x |-> "methane", y |-> <<"co2">>,
                          color |-> "year", trendline |-> "ols", title |-> c,
                          data |-> filter_rows(df, c, ys)]
                    ELSE fig2
         IN  IF fig = Unbound THEN Raise("UnboundLocalError")
             ELSE Return(Graph(fig))

\* the Output of a callback: replaced by what it returns, kept when it raises
Children(outcome, old) == IF outcome.kind = "return" THEN outcome.value ELSE old

PlotCallbackOverwritesTable(sp, c, ys) ==
    LET out == update_plot(sp, c, ys)
    IN  /\ plot_outcome' = out
        /\ plot_section' = Children(out, plot_section)
        /\ df' = IF out.kind = "return" /\ out.value.kind = "Graph"
                 THEN out.value.figure.data ELSE df

\* line 120-126: update_plot as the callback of plot-section.children
PlotCallback(sp, c, ys) ==
    LET out == update_plot(sp, c, ys)
    IN  /\ plot_outcome' = out
        /\ plot_section' = Children(out, plot_section)
        /\ df' = df

\* plot-selector changes (line 72-78): update_controls (line 87-90) and update_plot
\* (line 120-125) are declared on it.  A returned Div holds a fresh country-selector
\* and year-slider with their value= (line 100, 111); a returned "" holds neither.
ChangePlot(p) ==
    /\ pc = "serve"
    /\ p # selected_plot
    /\ selected_plot' = p
    /\ LET ctl == update_controls(p)
           shown == Children(ctl, control_section)
           c == IF ctl.kind = "raise" THEN country
                ELSE IF shown.kind = "Div" THEN shown.country_value ELSE None
           ys == IF ctl.kind = "raise" THEN years
                 ELSE IF shown.kind = "Div" THEN shown.year_value ELSE NoYears
       IN  /\ controls_outcome' = ctl
           /\ control_section' = shown
           /\ country' = c
           /\ years' = ys
           /\ PlotCallback(p, c, ys)
    /\ UNCHANGED <<co2_src, oil_src, df_oil, df_co2, pc>>

\* country-selector changes (a choice, or None when cleared); it is on the page
\* only inside the Div update_controls returned
ChangeCountry(c) ==
    /\ pc = "serve"
    /\ control_section.kind = "Div"
    /\ c # country
    /\ country' = c
    /\ PlotCallback(selected_plot, c, years)
    /\ UNCHANGED <<co2_src, oil_src, df_oil, df_co2, pc, selected_plot, years,
                   control_section, controls_outcome>>

\* year-slider changes
ChangeYears(ys) ==
    /\ pc = "serve"
    /\ control_section.kind = "Div"
    /\ ys # years
    /\ years' = ys
    /\ PlotCallback(selected_plot, country, ys)
    /\ UNCHANGED <<co2_src, oil_src, df_oil, df_co2, pc, selected_plot, country,
                   control_section, controls_outcome>>

----------------------------------------------------------------------------
(* Specifications *)

InitOf(co2s, oils) ==
    /\ co2_src \in co2s
    /\ oil_src \in oils
    /\ df_oil = <<>>
    /\ df_co2 = <<>>
    /\ df = <<>>
    /\ pc = "start"
    /\ selected_plot = None
    /\ country = None
    /\ years = NoYears
    /\ control_section = NoChildren
    /\ plot_section = NoChildren
    /\ controls_outcome = NotCalled
    /\ plot_outcome = NotCalled

\* the whole program on a few source files
Init == InitOf(Co2Fixtures, OilFixtures)

Next ==
    \/ PreprocessOil
    \/ CleanEmissions
    \/ MergeDatasets
    \/ FilterYears
    \/ \E p \in PlotValues \cup {None} : ChangePlot(p)
    \/ \E c \in Countries \cup {None} : ChangeCountry(c)
    \/ \E ys \in YearRanges \cup {NoYears} : ChangeYears(ys)

Spec == Init /\ [][Next]_vars

\* the data preparation on every emissions file of up to MaxCo2Rows rows
InitData == InitOf(BSeq(Co2Rows, MaxCo2Rows), OilFixtures)

NextData ==
    \/ PreprocessOil
    \/ CleanEmissions
    \/ MergeDatasets
    \/ FilterYears

SpecData == InitData /\ [][NextData]_vars

\* the data preparation on every oil-price file of up to MaxOilRows rows
InitOil == InitOf(Co2Fixtures, BSeq(OilRows, MaxOilRows))

NextOil ==
    \/ PreprocessOil
    \/ CleanEmissions
    \/ MergeDatasets
    \/ FilterYears

SpecOil == InitOil /\ [][NextOil]_vars

----------------------------------------------------------------------------
(* Claims *)

SupportedPlots == {"time", "corr", "methane_corr"}

Count(t, Test(_)) == Len(SelectSeq(t, Test))

EmissionColumns(t) ==
    [i \in DOMAIN t |-> [country |-> t[i].country, year |-> t[i].year,
                         co2 |-> t[i].co2, methane |-> t[i].methane]]

\* the rows of the emissions source that miss none of country, year and co2
Cleaned == SelectSeq(co2_src, LAMBDA r : r.country # NA /\ r.year # NaN /\ r.co2 # NaN)

CleanedFromStart == SelectSeq(Cleaned, LAMBDA r : r.year >= StartYear)

ChartShown == plot_outcome.kind = "return" /\ plot_outcome.value.kind = "Graph"

\* C1: for each of the chart types time, corr and methane_corr, every country and
\* every year range [lo, hi], the subset update_plot renders holds only rows of the
\* selected country with lo <= year <= hi, and holds every such row of the merged
\* table (as often as the merged table does).
C1_FilteredSubset ==
    (pc = "serve" /\ ChartShown) =>
        LET dff == plot_outcome.value.figure.data
            Selected(r) == /\ r.country = country
                           /\ years[1] # NaN /\ years[1] <= r.year
                           /\ years[2] # NaN /\ r.year <= years[2]
        IN  /\ selected_plot \in SupportedPlots
            /\ \A i \in DOMAIN dff : Selected(dff[i])
            /\ \A i \in DOMAIN df :
                   Selected(df[i]) =>
                       Count(dff, LAMBDA r : r = df[i]) = Count(df, LAMBDA r : r = df[i])

\* C1 witness: a chart whose subset keeps a row on both (equal) ends of the range
\* and leaves out a row of another country and a row of another year.
C1_Witness ==
    /\ pc = "serve" /\ ChartShown
    /\ plot_outcome.value.figure.data # <<>>
    /\ years[1] = years[2]
    /\ \E i \in DOMAIN df : df[i].country # country /\ df[i].year = years[1]
    /\ \E i \in DOMAIN df : df[i].country = country /\ df[i].year > years[2]

\* C2 as stated: every row of the cleaned emissions data appears exactly once in
\* the merged table.
C2_Original ==
    pc = "serve" => EmissionColumns(df) = Cleaned

\* C2 amended: the left join keeps every cleaned emissions row exactly once and in
\* order, whether or not its year has an oil price; the merged table the program
\* keeps holds exactly once those of them whose year is >= 1987.
C2_LeftJoinTotal ==
    /\ pc = "merged" => EmissionColumns(df) = Cleaned
    /\ pc = "serve" => EmissionColumns(df) = CleanedFromStart

\* C2 witness: a merged row without an oil price, and a cleaned row of an earlier
\* year that the year filter removed.
C2_Witness ==
    /\ pc = "serve"
    /\ \E i \in DOMAIN df : df[i].brent_price_usd = NaNPrice
    /\ \E i \in DOMAIN Cleaned : Cleaned[i].year < StartYear

\* C3: no row of the merged table misses country, year or co2, and a row that
\* misses only methane is kept.
C3_RequiredPresent ==
    pc \in {"merged", "serve"} =>
        /\ \A i \in DOMAIN df :
               df[i].country # NA /\ df[i].year # NaN /\ df[i].co2 # NaN
        /\ Count(df, LAMBDA r : r.methane = NaN)
             = Count(IF pc = "serve" THEN CleanedFromStart ELSE Cleaned,
                     LAMBDA r : r.methane = NaN)

\* C3 witness: the source has a row missing co2 only and the merged table has a
\* row missing methane.
C3_Witness ==
    /\ pc = "serve"
    /\ \E i \in DOMAIN co2_src :
           co2_src[i].co2 = NaN /\ co2_src[i].country # NA /\ co2_src[i].year >= StartYear
    /\ \E i \in DOMAIN df : df[i].methane = NaN

\* C4: every row of the merged table has year >= 1987; an otherwise valid row of
\* an earlier year is dropped and a row of 1987 is kept.
C4_YearFromStart ==
    pc = "serve" =>
        /\ \A i \in DOMAIN df : df[i].year >= StartYear
        /\ Count(df, LAMBDA r : r.year = StartYear)
             = Count(Cleaned, LAMBDA r : r.year = StartYear)

\* C4 witness: a valid source row of an earlier year beside a merged row of 1987.
C4_Witness ==
    /\ pc = "serve"
    /\ \E i \in DOMAIN Cleaned : Cleaned[i].year < StartYear /\ Cleaned[i].methane # NaN
    /\ \E i \in DOMAIN df : df[i].year = StartYear

\* the priced observations of year y: source rows whose date parses to y
Observations(y) ==
    SelectSeq(oil_src, LAMBDA r : /\ to_datetime(r.date) # NaT
                                  /\ to_datetime(r.date).year = y
                                  /\ r.brent_price_usd # NaN)

ParsedYears == {to_datetime(d).year : d \in DateCells} \ {NaN}

\* C5: the annual oil-price table has one row per year, its price the arithmetic
\* mean of the year's observations whose date parsed; a row whose date does not
\* parse is left out and the load goes on.
C5_AnnualMean ==
    pc # "start" =>
        /\ \A i, j \in DOMAIN df_oil : i # j => df_oil[i].year # df_oil[j].year
        /\ {df_oil[i].year : i \in DOMAIN df_oil}
             = {y \in ParsedYears : Observations(y) # <<>>}
        /\ \A i \in DOMAIN df_oil :
               LET obs == Observations(df_oil[i].year)
                   m == df_oil[i].brent_price_usd
               IN  m.den > 0 /\ m.num * Len(obs) = SumPrices(obs) * m.den

\* C5 witness: a source with an unparsable date, and a year whose mean of two
\* different prices is no whole number.
C5_Witness ==
    /\ pc # "start"
    /\ \E i \in DOMAIN oil_src : to_datetime(oil_src[i].date) = NaT
    /\ \E i \in DOMAIN df_oil : df_oil[i].brent_price_usd.den = 2

\* C6: each merged row carries the annual price of its own year (so rows of one
\* year agree), the price is missing exactly when the annual table has no row of
\* that year, and the row's country is the emissions row's, never "World".
C6_PriceOfOwnYear ==
    pc \in {"merged", "serve"} =>
        LET kept == IF pc = "serve" THEN CleanedFromStart ELSE Cleaned
        IN  /\ Len(df) = Len(kept)
            /\ \A i \in DOMAIN df :
                   LET r == df[i]
                       annual == {k \in DOMAIN df_oil : df_oil[k].year = r.year}
                   IN  /\ DOMAIN r = {"country", "year", "co2", "methane", "brent_price_usd"}
                       /\ (r.brent_price_usd = NaNPrice) <=> (annual = {})
                       /\ \A k \in annual : r.brent_price_usd = df_oil[k].brent_price_usd
                       /\ r.country = kept[i].country
                       /\ r.country # "World"
            /\ \A i, j \in DOMAIN df :
                   df[i].year = df[j].year => df[i].brent_price_usd = df[j].brent_price_usd

\* C6 witness: two countries' rows of one priced year.
C6_Witness ==
    /\ pc = "serve"
    /\ \E i, j \in DOMAIN df :
           /\ df[i].country # df[j].country
           /\ df[i].year = df[j].year
           /\ df[i].brent_price_usd # NaNPrice

\* C7 as stated: with top10 or predict selected, neither update_controls nor
\* update_plot ends in an error, and update_plot produces no chart.
C7_Original ==
    selected_plot \in {"top10", "predict"} =>
        /\ controls_outcome.kind # "raise"
        /\ plot_outcome.kind # "raise"
        /\ ~ChartShown

\* C8 as stated: the country and year-range selectors are shown only while the
\* chosen chart type is time, corr or methane_corr.
C8_Original ==
    control_section.kind = "Div" => selected_plot \in SupportedPlots

\* C9 as stated: the plot section is what update_plot makes of the current inputs,
\* one of three: nothing without a chart type, the prompt with a chart type and
\* country or year range unset, a chart with all three set.
C9_Original ==
    pc = "serve" =>
        IF Falsy(selected_plot)
        THEN plot_section \in {NoChildren, Text("")}
        ELSE IF Falsy(country) \/ years = NoYears
        THEN plot_section = P("Select a country and year range.")
        ELSE ChartShown /\ plot_section = plot_outcome.value

\* C10: no call of update_controls or update_plot changes the merged table.
C10_TableReadOnly ==
    [][pc = "serve" => df' = df]_vars

\* C10 witness: both callbacks have run and a chart of part of the table is shown.
C10_Witness ==
    /\ pc = "serve"
    /\ controls_outcome.kind = "return"
    /\ ChartShown
    /\ Len(plot_outcome.value.figure.data) < Len(df)
    /\ plot_outcome.value.figure.data # <<>>

====
